---- MODULE Spec2Model ----
(***************************************************************************)
(* A model of etl.py: the Spark job that turns the song metadata source    *)
(* and the event log source into the five star-schema tables songs,        *)
(* artists, users, time and songplays, each written with mode 'overwrite'. *)
(*                                                                         *)
(* One run of main() is the sequence process_song_data, process_log_data.  *)
(* A run is cut into one action per table: the action evaluates the query  *)
(* of that table and performs its write.  An uncaught exception (a read,   *)
(* derivation or write error, or a crash of the job) ends the run; the     *)
(* caller may start main() again against the same inputs and output root.  *)
(*                                                                         *)
(* Engine behaviour the script relies on is modelled by what Spark         *)
(* documents: dropDuplicates keeps an unspecified row of each key group,   *)
(* monotonically_increasing_id puts the partition id in the upper 31 bits  *)
(* and the row number within the partition in the lower 33 bits, SQL       *)
(* equality is never true of NULL, a Python udf applied to None raises.    *)
(* Calendar values are computed in UTC.                                    *)
(***************************************************************************)
EXTENDS Integers, Sequences, FiniteSets

VARIABLES
    song_data,        \* records of song-data/A/A/A/*.json (input, never written)
    log_data,         \* records of log_data/*/*/*.json    (input, never written)
    pc,               \* position of the current run of main()
    prior,            \* how the previous run of main() ended
    songs_table,      \* local of process_song_data
    artists_table,    \* local of process_song_data
    users_table,      \* local of process_log_data
    time_table,       \* local of process_log_data
    songplays_table,  \* local of process_log_data, in DataFrame order
    written,          \* the writes the current run has performed, in order
    sink              \* output root: for each dataset, its batches of rows

vars == <<song_data, log_data, pc, prior, songs_table, artists_table,
          users_table, time_table, songplays_table, written, sink>>

(***************************************************************************)
(* Bounds of the model.                                                    *)
(***************************************************************************)
MaxSongs == 2
MaxEvents == 2
NumPartitions == 2

NULL == "NULL"
NullTs == 0 - 1

SeqsUpTo(S, n) == UNION {[1..k -> S] : k \in 0..n}

Range(s) == {s[i] : i \in DOMAIN s}

IsPrefix(s, t) == /\ Len(s) <= Len(t)
                  /\ \A i \in 1..Len(s) : s[i] = t[i]

(***************************************************************************)
(* Raw records.  The fields no query of the script distinguishes rows by   *)
(* carry one value.                                                        *)
(***************************************************************************)
RawSong(sid, title, aid, aname) ==
    [song_id |-> sid, title |-> title, artist_id |-> aid, artist_name |-> aname,
     artist_location |-> "Loc", artist_latitude |-> NULL,
     artist_longitude |-> NULL, year |-> 2000, duration |-> 200]

RawEvent(ts, uid, level, page, artist) ==
    [ts |-> ts, userId |-> uid, firstName |-> "First", lastName |-> "Last",
     gender |-> "F", level |-> level, page |-> page, sessionId |-> 583,
     location |-> "City", userAgent |-> "Agent", artist |-> artist]

(***************************************************************************)
(* Timestamp derivation.                                                   *)
(***************************************************************************)
CivilFromDays(days) ==
    LET z   == days + 719468
        era == z \div 146097
        doe == z - era * 146097
        yoe == (doe - doe \div 1460 + doe \div 36524 - doe \div 146096) \div 365
        doy == doe - (365 * yoe + yoe \div 4 - yoe \div 100)
        mp  == (5 * doy + 2) \div 153
        d   == doy - (153 * mp + 2) \div 5 + 1
        m   == IF mp < 10 THEN mp + 3 ELSE mp - 9
        y   == yoe + era * 400 + (IF m <= 2 THEN 1 ELSE 0)
    IN  [year |-> y, month |-> m, day |-> d]

DaysFromCivil(y, m, d) ==
    LET yy  == IF m <= 2 THEN y - 1 ELSE y
        era == yy \div 400
        yoe == yy - era * 400
        mp  == IF m > 2 THEN m - 3 ELSE m + 9
        doy == (153 * mp + 2) \div 5 + d - 1
        doe == yoe * 365 + yoe \div 4 - yoe \div 100 + doy
    IN  era * 146097 + doe - 719468

\* str(datetime.fromtimestamp(int(x) / 1000.0)): the calendar value of x
\* milliseconds, with its fraction of a second.
get_datetime(x) ==
    LET days == x \div 86400000
        rem  == x % 86400000
        c    == CivilFromDays(days)
    IN  [year |-> c.year, month |-> c.month, day |-> c.day,
         hour |-> rem \div 3600000,
         minute |-> (rem % 3600000) \div 60000,
         second |-> (rem % 60000) \div 1000,
         microsecond |-> (rem % 1000) * 1000]

EpochDays(dt) == DaysFromCivil(dt.year, dt.month, dt.day)

\* dayofweek(): 1 = Sunday ... 7 = Saturday; 1970-01-01 was a Thursday.
DayOfWeek(dt) == ((EpochDays(dt) + 4) % 7) + 1

LongYear(y) ==
    LET p(n) == (n + n \div 4 - n \div 100 + n \div 400) % 7
    IN  p(y) = 4 \/ p(y - 1) = 3

\* weekofyear(): the ISO 8601 week number.
WeekOfYear(dt) ==
    LET days    == EpochDays(dt)
        isoDay  == ((days + 3) % 7) + 1
        ordinal == days - DaysFromCivil(dt.year, 1, 1) + 1
        w       == (ordinal - isoDay + 10) \div 7
    IN  IF w < 1 THEN (IF LongYear(dt.year - 1) THEN 53 ELSE 52)
        ELSE IF w = 53 /\ ~LongYear(dt.year) THEN 1
        ELSE w

\* The NULL timestamp, in the shape of a calendar value.
NullDatetime ==
    [year |-> NullTs, month |-> NullTs, day |-> NullTs, hour |-> NullTs,
     minute |-> NullTs, second |-> NullTs, microsecond |-> NullTs]

\* to_timestamp(logs_data.ts/1000): NULL for a NULL ts.
to_timestamp(ts) == IF ts = NullTs THEN NullDatetime ELSE get_datetime(ts)

(***************************************************************************)
(* Queries of process_song_data.                                           *)
(***************************************************************************)
\* The query without its dropDuplicates: every distinct row is kept.
DropDuplicatesAll(rows, key) == {rows}

\* dropDuplicates(cols) over a single key column: the results Spark may
\* return, one row of each group of rows that agree on the key.

DropDuplicates(rows, key) ==
    {T \in SUBSET rows :
        \A r \in rows : Cardinality({t \in T : t[key] = r[key]}) = 1}

\* SELECT DISTINCT song_id, title, artist_id, year, duration
\* FROM songs_data WHERE song_id IS NOT NULL
SongsQuery(songs) ==
    {[song_id |-> r.song_id, title |-> r.title, artist_id |-> r.artist_id,
      year |-> r.year, duration |-> r.duration] :
        r \in {x \in Range(songs) : x.song_id # NULL}}

\* SELECT DISTINCT artist_id, artist_name, artist_location, artist_latitude,
\* artist_longitude FROM songs_data WHERE artist_id IS NOT NULL
ArtistsQuery(songs) ==
    {[artist_id |-> r.artist_id, artist_name |-> r.artist_name,
      artist_location |-> r.artist_location,
      artist_latitude |-> r.artist_latitude,
      artist_longitude |-> r.artist_longitude] :
        r \in {x \in Range(songs) : x.artist_id # NULL}}

(***************************************************************************)
(* Queries of process_log_data.                                            *)
(***************************************************************************)
\* The users query without page = 'NextSong' in its WHERE clause.
UsersQueryAllPages(events) ==
    {[userId |-> r.userId, firstName |-> r.firstName, lastName |-> r.lastName,
      gender |-> r.gender, level |-> r.level] :
        r \in {x \in Range(events) : x.userId # NULL}}

\* SELECT DISTINCT userId, firstName, lastName, gender, level
\* FROM logs_data WHERE page = 'NextSong' AND userId IS NOT NULL
UsersQuery(events) ==
    {[userId |-> r.userId, firstName |-> r.firstName, lastName |-> r.lastName,
      gender |-> r.gender, level |-> r.level] :
        r \in {x \in Range(events) : x.page = "NextSong" /\ x.userId # NULL}}

\* The view time_data, had df been filtered to the NextSong events.
TimeSourceNextSong(events) == {x \in Range(events) : x.page = "NextSong"}

\* The rows of the view time_data the time query reads: every row of df.

TimeSource(events) == Range(events)

\* The udf get_datetime raises on a None ts.
DerivationFails(events) == \E x \in Range(events) : x.ts = NullTs

TimeRow(dt) ==
    [start_time |-> dt, hour |-> dt.hour, day |-> dt.day,
     week |-> WeekOfYear(dt), month |-> dt.month, year |-> dt.year,
     weekday |-> DayOfWeek(dt)]

\* SELECT DISTINCT datetime as start_time, hour(datetime), day(datetime),
\* weekofyear(datetime), month(datetime), year(datetime), dayofweek(datetime)
\* FROM time_data
TimeQuery(events) == {TimeRow(get_datetime(x.ts)) : x \in TimeSource(events)}

\* The join, had it been ON logs_data.artist = songs_data.artist_id.
JoinCondOnId(e, s) ==
    /\ e.artist # NULL
    /\ s.artist_id # NULL
    /\ e.artist = s.artist_id

\* ON logs_data.artist = songs_data.artist_name
JoinCond(e, s) ==
    /\ e.artist # NULL
    /\ s.artist_name # NULL
    /\ e.artist = s.artist_name

\* FROM logs_data JOIN songs_data ON ...: the pairs <<event, song>> of
\* positions in the two sources that the join keeps, in DataFrame order.
JoinPairs(events, songs) ==
    LET n   == Len(events) * Len(songs)
        all == [k \in 1..n |->
                   <<((k - 1) \div Len(songs)) + 1, ((k - 1) % Len(songs)) + 1>>]
    IN  SelectSeq(all, LAMBDA p : JoinCond(events[p[1]], songs[p[2]]))

\* The ways Spark may lay n rows out over its partitions lo, lo + 1, ...:
\* the partition of each row, never decreasing along the DataFrame order.
RECURSIVE LayoutsFrom(_, _)
LayoutsFrom(n, lo) ==
    IF n = 0 THEN {<<>>}
    ELSE UNION {{<<part>> \o rest : rest \in LayoutsFrom(n - 1, part)} :
                   part \in lo..(NumPartitions - 1)}

Layouts(n) == LayoutsFrom(n, 0)

\* An id that numbers the rows of each partition from 0 and leaves the
\* partition out.
RowNumberOnly(f, i) ==
    <<0, Cardinality({j \in 1..(i - 1) : f[j] = f[i]})>>

\* monotonically_increasing_id() of row i under layout f: <<upper 31 bits,
\* lower 33 bits>>, the partition id and the row number within the partition.
MonotonicallyIncreasingId(f, i) ==
    <<f[i], Cardinality({j \in 1..(i - 1) : f[j] = f[i]})>>

\* The SELECT list of the songplays query for one joined pair, but for
\* songplay_id.
JoinedRow(e, s) ==
    LET start == to_timestamp(e.ts)
    IN  [start_time |-> start, month |-> start.month, year |-> start.year,
         user_id |-> e.userId, level |-> e.level,
         song_id |-> s.song_id, artist_id |-> s.artist_id,
         session_id |-> e.sessionId, location |-> e.location,
         user_agent |-> e.userAgent]

\* The joined rows, in DataFrame order.
JoinedRows(events, songs) ==
    LET pairs == JoinPairs(events, songs)
    IN  [i \in 1..Len(pairs) |->
            JoinedRow(events[pairs[i][1]], songs[pairs[i][2]])]

SongplayRow(id, row) ==
    [songplay_id |-> id,
     start_time |-> row.start_time, month |-> row.month, year |-> row.year,
     user_id |-> row.user_id, level |-> row.level,
     song_id |-> row.song_id, artist_id |-> row.artist_id,
     session_id |-> row.session_id, location |-> row.location,
     user_agent |-> row.user_agent]

\* The songplays query over the joined rows under layout f.
SongplaysQuery(rows, f) ==
    [i \in 1..Len(rows) |-> SongplayRow(MonotonicallyIncreasingId(f, i), rows[i])]

(***************************************************************************)
(* The sink and the control flow of main().                                *)
(***************************************************************************)
WriteOrder == <<"songs", "artists", "users", "time", "songplays">>

\* The same write with mode 'append'.
WriteAppend(old, table) == Append(old, table)

\* DataFrameWriter.parquet(path, 'overwrite'): the dataset at path becomes
\* the one batch written now.

Write(old, table) == <<table>>

\* An exception that a handler around the statement swallows: the run goes
\* on as if the step had completed.
RaiseSwallowed(step) == step

\* An exception no frame catches: it leaves main(), whatever step the
\* statement that raised would have completed.

Raise(step) == "failed"

Running == pc \in {"start", "songs", "artists", "users", "time"}

EmptySink ==
    [songs |-> <<>>, artists |-> <<>>, users |-> <<>>, time |-> <<>>,
     songplays |-> <<>>]

(***************************************************************************)
(* The inputs.  Each class of inputs varies the fields one group of        *)
(* queries reads and holds the other source to one small value.            *)
(***************************************************************************)
SongRecords ==
    {RawSong(sid, title, aid, IF title = "X" THEN "N1" ELSE "N2") :
        sid \in {NULL, "S1"}, title \in {"X", "Y"}, aid \in {NULL, "A1"}}

UserEvents ==
    {RawEvent(106796, uid, level, page, NULL) :
        uid \in {NULL, "26"}, level \in {"free", "paid"},
        page \in {"NextSong", "Home"}}
    \cup {RawEvent(106796, "27", "free", "NextSong", NULL)}

TimeEvents ==
    {RawEvent(ts, "26", "free", page, NULL) :
        ts \in {NullTs, 106000, 106796, 90106796},
        page \in {"NextSong", "Home"}}

\* Song records of one artist_name, and events that carry it.
SameNameSongs ==
    {RawSong("S1", "X", "A1", "N1"), RawSong("S2", "X", "A1", "N1")}

SameNameEvents ==
    {RawEvent(106796, "26", "free", "NextSong", "N1"),
     RawEvent(106796, "26", "free", "Home", "N1")}

\* Song records with and without an artist_name, and events whose artist
\* is that artist_name, the artist_id, or NULL.
JoinSongs ==
    {RawSong("S1", "X", "A1", "N1"), RawSong("S3", "X", "A2", NULL)}

JoinEvents ==
    {RawEvent(106796, "26", "free", "NextSong", "N1"),
     RawEvent(106796, "26", "free", "NextSong", "A1"),
     RawEvent(106796, "26", "free", "Home", NULL)}

OneSong == <<RawSong("S1", "X", "A1", "N1")>>

OneEvent == <<RawEvent(106796, "26", "free", "NextSong", "N1")>>

Inputs ==
    \/ /\ song_data \in SeqsUpTo(SongRecords, MaxSongs)
       /\ log_data = OneEvent
    \/ /\ song_data = OneSong
       /\ log_data \in SeqsUpTo(UserEvents, MaxEvents)
    \/ /\ song_data = OneSong
       /\ log_data \in SeqsUpTo(TimeEvents, MaxEvents)
    \/ /\ song_data \in SeqsUpTo(SameNameSongs, MaxSongs)
       /\ log_data \in SeqsUpTo(SameNameEvents, MaxEvents)
    \/ /\ song_data \in SeqsUpTo(JoinSongs, MaxSongs)
       /\ log_data \in SeqsUpTo(JoinEvents, MaxEvents)

Init ==
    /\ Inputs
    /\ pc = "idle"
    /\ prior = "none"
    /\ songs_table = {}
    /\ artists_table = {}
    /\ users_table = {}
    /\ time_table = {}
    /\ songplays_table = <<>>
    /\ written = <<>>
    /\ sink = EmptySink

(***************************************************************************)
(* Actions.                                                                *)
(***************************************************************************)
\* The caller invokes main(): create_spark_session, fresh locals.
StartRun ==
    /\ pc \in {"idle", "done", "failed"}
    /\ pc' = "start"
    /\ prior' = IF pc = "idle" THEN "none" ELSE pc
    /\ songs_table' = {}
    /\ artists_table' = {}
    /\ users_table' = {}
    /\ time_table' = {}
    /\ songplays_table' = <<>>
    /\ written' = <<>>
    /\ UNCHANGED <<song_data, log_data, sink>>

\* process_song_data up to "songs.parquet completed".
ProcessSongs ==
    /\ pc = "start"
    /\ \E T \in DropDuplicates(SongsQuery(song_data), "song_id") :
          /\ songs_table' = T
          /\ sink' = [sink EXCEPT !.songs = Write(@, T)]
    /\ written' = Append(written, "songs")
    /\ pc' = "songs"
    /\ UNCHANGED <<song_data, log_data, prior, artists_table, users_table,
                   time_table, songplays_table>>

\* process_song_data from there to its end.
ProcessArtists ==
    /\ pc = "songs"
    /\ \E T \in DropDuplicates(ArtistsQuery(song_data), "artist_id") :
          /\ artists_table' = T
          /\ sink' = [sink EXCEPT !.artists = Write(@, T)]
    /\ written' = Append(written, "artists")
    /\ pc' = "artists"
    /\ UNCHANGED <<song_data, log_data, prior, songs_table, users_table,
                   time_table, songplays_table>>

\* process_log_data up to "users.parquet completed".
ProcessUsers ==
    /\ pc = "artists"
    /\ \E T \in DropDuplicates(UsersQuery(log_data), "userId") :
          /\ users_table' = T
          /\ sink' = [sink EXCEPT !.users = Write(@, T)]
    /\ written' = Append(written, "users")
    /\ pc' = "users"
    /\ UNCHANGED <<song_data, log_data, prior, songs_table, artists_table,
                   time_table, songplays_table>>

\* process_log_data from there to "time.parquet completed"; the udf raises
\* when the time query is evaluated over a row with no ts.
ProcessTime ==
    /\ pc = "users"
    /\ IF DerivationFails(log_data)
       THEN /\ pc' = Raise("time")
            /\ UNCHANGED <<time_table, written, sink>>
       ELSE /\ time_table' = TimeQuery(log_data)
            /\ sink' = [sink EXCEPT !.time = Write(@, TimeQuery(log_data))]
            /\ written' = Append(written, "time")
            /\ pc' = "time"
    /\ UNCHANGED <<song_data, log_data, prior, songs_table, artists_table,
                   users_table, songplays_table>>

\* process_log_data from there to its end.
ProcessSongplays ==
    /\ pc = "time"
    /\ \E rows \in {JoinedRows(log_data, song_data)} :
          \E T \in {SongplaysQuery(rows, f) : f \in Layouts(Len(rows))} :
              /\ songplays_table' = T
              /\ sink' = [sink EXCEPT !.songplays = Write(@, T)]
    /\ written' = Append(written, "songplays")
    /\ pc' = "done"
    /\ UNCHANGED <<song_data, log_data, prior, songs_table, artists_table,
                   users_table, time_table>>

\* The statement the run is at raises (source unreadable, sink unreachable)
\* or the job is killed, before the next write.
Crash ==
    /\ Running
    /\ pc' = Raise(pc)
    /\ UNCHANGED <<song_data, log_data, prior, songs_table, artists_table,
                   users_table, time_table, songplays_table, written, sink>>

Next ==
    \/ StartRun
    \/ ProcessSongs
    \/ ProcessArtists
    \/ ProcessUsers
    \/ ProcessTime
    \/ ProcessSongplays
    \/ Crash

Spec == Init /\ [][Next]_vars

(***************************************************************************)
(* Properties.                                                             *)
(***************************************************************************)
Done(table) == table \in Range(written)

\* songplay_id a below songplay_id b, as the 64-bit values they stand for
\* (the row number takes less than 2^33).
IdLess(a, b) == a[1] < b[1] \/ (a[1] = b[1] /\ a[2] < b[2])

\* The pairs <<event, song>> the specified join key relates.
NameMatches ==
    {p \in (DOMAIN log_data) \X (DOMAIN song_data) :
        /\ log_data[p[1]].artist # NULL
        /\ log_data[p[1]].artist = song_data[p[2]].artist_name}

\* C1: once the run has produced the Songs table, it holds exactly one
\* record for each non-null song_id of the source, no record with another
\* or a null song_id, and the five fields of each record are those of one
\* source record with that song_id.
C1_SongsOnePerSongId ==
    Done("songs") =>
        /\ \A i \in DOMAIN song_data :
              song_data[i].song_id # NULL =>
                Cardinality({r \in songs_table :
                                r.song_id = song_data[i].song_id}) = 1
        /\ \A r \in songs_table :
              /\ r.song_id # NULL
              /\ \E i \in DOMAIN song_data :
                    /\ song_data[i].song_id = r.song_id
                    /\ song_data[i].title = r.title
                    /\ song_data[i].artist_id = r.artist_id
                    /\ song_data[i].year = r.year
                    /\ song_data[i].duration = r.duration

\* The Songs table of a source with two records of one song_id that differ
\* in their title.
C1_Witness ==
    /\ Done("songs")
    /\ songs_table # {}
    /\ \E i \in DOMAIN song_data : \E j \in DOMAIN song_data :
          /\ song_data[i].song_id # NULL
          /\ song_data[i].song_id = song_data[j].song_id
          /\ song_data[i].title # song_data[j].title

\* C2: the Songplays table never has more rows than the log source has
\* event records.
C2_SongplaysAtMostEvents ==
    Done("songplays") => Len(songplays_table) <= Len(log_data)

\* C3: every Songplays row carries the song_id and artist_id of a song
\* record whose artist_name is the artist string of an event, the table has
\* one row for each such pair of an event and a song and none for an event
\* that matches no artist_name, so it is empty when no event matches.
C3_SongplaysJoinOnArtistName ==
    Done("songplays") =>
        /\ \A i \in DOMAIN songplays_table :
              \E p \in NameMatches :
                 /\ songplays_table[i].song_id = song_data[p[2]].song_id
                 /\ songplays_table[i].artist_id = song_data[p[2]].artist_id
                 /\ songplays_table[i].user_id = log_data[p[1]].userId
                 /\ songplays_table[i].level = log_data[p[1]].level
        /\ Len(songplays_table) = Cardinality(NameMatches)
        /\ (NameMatches = {} => songplays_table = <<>>)

\* A non-empty Songplays table of a log source with an event whose artist
\* string is the artist_id, not the artist_name, of a song.
C3_Witness ==
    /\ Done("songplays")
    /\ songplays_table # <<>>
    /\ \E e \in DOMAIN log_data : \E s \in DOMAIN song_data :
          /\ log_data[e].artist = song_data[s].artist_id
          /\ \A t \in DOMAIN song_data :
                log_data[e].artist # song_data[t].artist_name

\* C4: every Songplays row is derived from an event whose page is NextSong.
C4_SongplaysOnlyNextSong ==
    Done("songplays") =>
        \A i \in DOMAIN songplays_table :
            log_data[JoinPairs(log_data, song_data)[i][1]].page = "NextSong"

\* C5: once the run has produced the Users table, it holds exactly one row
\* for each non-null userId of a NextSong event, and no row with a null
\* userId or with a userId that no NextSong event carries.
C5_UsersOnePerUserId ==
    Done("users") =>
        /\ \A i \in DOMAIN log_data :
              (log_data[i].page = "NextSong" /\ log_data[i].userId # NULL) =>
                Cardinality({r \in users_table :
                                r.userId = log_data[i].userId}) = 1
        /\ \A r \in users_table :
              /\ r.userId # NULL
              /\ \E i \in DOMAIN log_data :
                    /\ log_data[i].page = "NextSong"
                    /\ log_data[i].userId = r.userId
                    /\ log_data[i].level = r.level

\* The Users table of a log source where one userId has NextSong events of
\* two levels.
C5_Witness ==
    /\ Done("users")
    /\ \E i \in DOMAIN log_data : \E j \in DOMAIN log_data :
          /\ log_data[i].page = "NextSong"
          /\ log_data[j].page = "NextSong"
          /\ log_data[i].userId # NULL
          /\ log_data[i].userId = log_data[j].userId
          /\ log_data[i].level # log_data[j].level

\* C6: once the run has produced the Time table, it holds a row for the
\* timestamp of every event, whatever its page, no row for anything else,
\* and one row only for each start_time.
C6_TimeFromAllEvents ==
    Done("time") =>
        /\ \A i \in DOMAIN log_data :
              \E r \in time_table : r.start_time = get_datetime(log_data[i].ts)
        /\ \A r \in time_table :
              \E i \in DOMAIN log_data :
                 r.start_time = get_datetime(log_data[i].ts)
        /\ \A r1 \in time_table : \A r2 \in time_table :
              r1.start_time = r2.start_time => r1 = r2

\* The Time table of a log source with an event of another page than
\* NextSong and two distinct timestamps.
C6_Witness ==
    /\ Done("time")
    /\ Cardinality(time_table) = 2
    /\ \E i \in DOMAIN log_data : log_data[i].page # "NextSong"

\* C7: the songplay_id values of the rows of a written Songplays batch
\* increase strictly along the order of the rows, so no two of them are
\* equal.
C7_SongplayIdsIncrease ==
    \A k \in DOMAIN sink.songplays :
        \A i \in DOMAIN sink.songplays[k] : \A j \in DOMAIN sink.songplays[k] :
            i < j => IdLess(sink.songplays[k][i].songplay_id,
                            sink.songplays[k][j].songplay_id)

\* A written Songplays batch of three rows or more, laid out over more than
\* one partition.
C7_Witness ==
    \E k \in DOMAIN sink.songplays :
        /\ Len(sink.songplays[k]) >= 3
        /\ \E i \in DOMAIN sink.songplays[k] :
              sink.songplays[k][i].songplay_id[1] # sink.songplays[k][1].songplay_id[1]

\* C8: when a run completes, whatever runs came before it, each of the five
\* datasets of the sink holds the table that run computed and nothing else.
C8_SinkHoldsLastRun ==
    pc = "done" =>
        sink = [songs |-> <<songs_table>>, artists |-> <<artists_table>>,
                users |-> <<users_table>>, time |-> <<time_table>>,
                songplays |-> <<songplays_table>>]

\* A run that completes after a run that aborted.
C8_Witness ==
    /\ pc = "done"
    /\ prior = "failed"
    /\ songs_table # {}
    /\ songplays_table # <<>>

\* C9: a later run of the Song Pipeline on the same song records leaves the
\* Songs and the Artists datasets as the earlier run wrote them.
C9_SongPipelineRepeatable ==
    [][/\ (sink.songs # <<>> => sink'.songs = sink.songs)
       /\ (sink.artists # <<>> => sink'.artists = sink.artists)]_vars

\* C10: the writes of a run are a prefix of songs, artists, users, time,
\* songplays; a run that ends without failure has made all five, a run that
\* failed has not.
C10_WritesInOrder ==
    /\ IsPrefix(written, WriteOrder)
    /\ (pc = "done" => written = WriteOrder)
    /\ (pc = "failed" => written # WriteOrder)

\* A run that failed in the derivation of the Time table, after three
\* writes.
C10_Witness ==
    /\ pc = "failed"
    /\ DerivationFails(log_data)
    /\ written = <<"songs", "artists", "users">>

====
